---- MODULE Spec2Model ----
(***************************************************************************)
(* react-native-passkey: the iOS and Android adapters (PasskeyiOS,         *)
(* PasskeyAndroid) between the FIDO2 JSON request/result shapes and the    *)
(* native passkey capability, with their base64 / base64url re-encoding.   *)
(*                                                                         *)
(* A JavaScript string is a sequence of one-character strings.  A          *)
(* JavaScript value is a record tagged by its field t; the evaluation of   *)
(* an expression that may throw is a completion record (Ok / Throw).       *)
(***************************************************************************)
EXTENDS Integers, Sequences, FiniteSets, TLC

VARIABLES
  pc,                \* per call: "idle", "awaiting", "resolved", "rejected"
  method,            \* per call: the adapter method that was called
  request,           \* per call: the caller's request object
  nativeArgs,        \* per call: the arguments handed to NativePasskey
  nativeResponse,    \* per call: how the native promise settled
  outcome,           \* per call: the value the call resolved / rejected with
  nativeInvocations, \* per call: number of NativePasskey invocations
  classifications,   \* per call: number of handleNativeError invocations
  codecPc,           \* codec round trip: "input", "standard", "urlsafe"
  codecInput,        \* codec round trip: the url-safe input x
  codecStd,          \* codec round trip: urlB64toStdB64(x)
  codecUrl           \* codec round trip: stdB64toUrlB64(urlB64toStdB64(x))

callVars == <<pc, method, request, nativeArgs, nativeResponse, outcome,
              nativeInvocations, classifications>>
codecVars == <<codecPc, codecInput, codecStd, codecUrl>>
vars == <<pc, method, request, nativeArgs, nativeResponse, outcome,
          nativeInvocations, classifications,
          codecPc, codecInput, codecStd, codecUrl>>

(***************************************************************************)
(* Bounds                                                                  *)
(***************************************************************************)
\* number of register / authenticate calls that may overlap
NumCalls == 2
\* longest url-safe string fed to the codec round trip
MaxLen == 5

Calls == 1..NumCalls

(***************************************************************************)
(* JavaScript values                                                       *)
(***************************************************************************)
Undefined == [t |-> "undefined"]
Null == [t |-> "null"]
Str(s) == [t |-> "string", v |-> s]
Bool(b) == [t |-> "boolean", v |-> b]
Obj(f) == [t |-> "object", f |-> f]
TypeError == [t |-> "TypeError"]
SyntaxError == [t |-> "SyntaxError"]

Ok(v) == [ok |-> TRUE, val |-> v]
Throw(e) == [ok |-> FALSE, val |-> e]

IsString(v) == v.t = "string"

\* o.k : undefined for a property the value does not carry
Get(o, k) == IF o.t = "object" /\ k \in DOMAIN o.f THEN o.f[k] ELSE Undefined

\* whether reading a property of v throws (v is undefined or null)
Nullish(v) == v.t \in {"undefined", "null"}

(***************************************************************************)
(* String.prototype.replace as the adapters use it                         *)
(***************************************************************************)
\* s.replace(/<from>/g, to) for a one-character pattern
ReplaceAll(s, from, to) ==
  [i \in 1..Len(s) |-> IF s[i] = from THEN to ELSE s[i]]

\* s.replace(/<ch>+$/, '') : drops the run of ch that ends the string
RECURSIVE StripTrailing(_, _)
StripTrailing(s, ch) ==
  IF Len(s) > 0 /\ s[Len(s)] = ch
    THEN StripTrailing(SubSeq(s, 1, Len(s) - 1), ch)
    ELSE s

(***************************************************************************)
(* The codec of PasskeyiOS                                                 *)
(***************************************************************************)
\* while (base64Standard.length % 4) base64Standard += '='
RECURSIVE PadToMultipleOf4(_)
PadToMultipleOf4(s) ==
  IF Len(s) % 4 # 0 THEN PadToMultipleOf4(Append(s, "=")) ELSE s

\* faulty variant: pads once ("if" for "while")
urlB64toStdB64_PadOnce(s) ==
  LET base64Standard == ReplaceAll(ReplaceAll(s, "-", "+"), "_", "/")
  IN  IF Len(base64Standard) % 4 # 0
        THEN Append(base64Standard, "=")
        ELSE base64Standard

urlB64toStdB64(s) ==
  LET base64Standard == ReplaceAll(ReplaceAll(s, "-", "+"), "_", "/")
  IN  PadToMultipleOf4(base64Standard)

\* faulty variant: keeps the padding
stdB64toUrlB64_KeepPadding(s) ==
  ReplaceAll(ReplaceAll(s, "+", "-"), "/", "_")

stdB64toUrlB64(s) ==
  StripTrailing(ReplaceAll(ReplaceAll(s, "+", "-"), "/", "_"), "=")

(***************************************************************************)
(* The codec round trip on its own                                         *)
(***************************************************************************)
UrlSafeAlphabet == {"A", "-", "_"}
UrlSafeStrings == UNION {[1..n -> UrlSafeAlphabet] : n \in 0..MaxLen}

CodecToStandard ==
  /\ codecPc = "input"
  /\ codecStd' = urlB64toStdB64(codecInput)
  /\ codecPc' = "standard"
  /\ UNCHANGED <<codecInput, codecUrl>>
  /\ UNCHANGED callVars

CodecToUrlSafe ==
  /\ codecPc = "standard"
  /\ codecUrl' = stdB64toUrlB64(codecStd)
  /\ codecPc' = "urlsafe"
  /\ UNCHANGED <<codecInput, codecStd>>
  /\ UNCHANGED callVars

(***************************************************************************)
(* The error classifier (PasskeyError.handleNativeError)                   *)
(***************************************************************************)
ErrorKinds ==
  {"UserCancelled", "NotSupported", "RequestFailed", "NativeError", "UnknownError"}

\* maps whatever was caught to one member of the closed enumeration
handleNativeError(error) ==
  IF error.t = "NativeError" /\ error.code \in ErrorKinds
    THEN [t |-> "PasskeyError", error |-> error.code]
    ELSE [t |-> "PasskeyError", error |-> "UnknownError"]

(***************************************************************************)
(* PasskeyiOS                                                              *)
(***************************************************************************)
PublicKey == <<"p", "u", "b", "l", "i", "c", "-", "k", "e", "y">>

\* reads request.rp.id, request.challenge, request.user.displayName and
\* request.user.id; a missing rp / user or a challenge that is no string throws
prepareRegistrationRequest(req) ==
  LET rp == Get(req, "rp")
      challenge == Get(req, "challenge")
      user == Get(req, "user")
  IN  IF Nullish(req) \/ Nullish(rp) \/ ~IsString(challenge) \/ Nullish(user)
        THEN Throw(TypeError)
        ELSE Ok([rpId |-> Get(rp, "id"),
                 challenge |-> Str(urlB64toStdB64(challenge.v)),
                 name |-> Get(user, "displayName"),
                 userID |-> Get(user, "id")])

\* faulty variant: rawId carries the native credentialID as it came
handleNativeRegistrationResult_RawId(result) ==
  LET credentialID == Get(result, "credentialID")
      response == Get(result, "response")
      rawClientDataJSON == Get(response, "rawClientDataJSON")
      rawAttestationObject == Get(response, "rawAttestationObject")
  IN  IF \/ Nullish(result) \/ ~IsString(credentialID) \/ Nullish(response)
         \/ ~IsString(rawClientDataJSON) \/ ~IsString(rawAttestationObject)
        THEN Throw(TypeError)
        ELSE Ok(Obj([id |-> Str(stdB64toUrlB64(credentialID.v)),
                     rawId |-> credentialID,
                     type |-> Str(PublicKey),
                     response |-> Obj(
                       [clientDataJSON |-> Str(stdB64toUrlB64(rawClientDataJSON.v)),
                        attestationObject |-> Str(stdB64toUrlB64(rawAttestationObject.v))])]))

handleNativeRegistrationResult(result) ==
  LET credentialID == Get(result, "credentialID")
      response == Get(result, "response")
      rawClientDataJSON == Get(response, "rawClientDataJSON")
      rawAttestationObject == Get(response, "rawAttestationObject")
  IN  IF \/ Nullish(result) \/ ~IsString(credentialID) \/ Nullish(response)
         \/ ~IsString(rawClientDataJSON) \/ ~IsString(rawAttestationObject)
        THEN Throw(TypeError)
        ELSE Ok(Obj([id |-> Str(stdB64toUrlB64(credentialID.v)),
                     rawId |-> Str(stdB64toUrlB64(credentialID.v)),
                     type |-> Str(PublicKey),
                     response |-> Obj(
                       [clientDataJSON |-> Str(stdB64toUrlB64(rawClientDataJSON.v)),
                        attestationObject |-> Str(stdB64toUrlB64(rawAttestationObject.v))])]))

handleNativeAuthenticationResult(result) ==
  LET credentialID == Get(result, "credentialID")
      userID == Get(result, "userID")
      response == Get(result, "response")
      rawClientDataJSON == Get(response, "rawClientDataJSON")
      rawAuthenticatorData == Get(response, "rawAuthenticatorData")
      signature == Get(response, "signature")
  IN  IF \/ Nullish(result) \/ ~IsString(credentialID) \/ Nullish(response)
         \/ ~IsString(rawClientDataJSON) \/ ~IsString(rawAuthenticatorData)
         \/ ~IsString(signature) \/ ~IsString(userID)
        THEN Throw(TypeError)
        ELSE Ok(Obj([id |-> Str(stdB64toUrlB64(credentialID.v)),
                     rawId |-> Str(stdB64toUrlB64(credentialID.v)),
                     type |-> Str(PublicKey),
                     response |-> Obj(
                       [clientDataJSON |-> Str(stdB64toUrlB64(rawClientDataJSON.v)),
                        authenticatorData |-> Str(stdB64toUrlB64(rawAuthenticatorData.v)),
                        signature |-> Str(stdB64toUrlB64(signature.v)),
                        userHandle |-> Str(stdB64toUrlB64(userID.v))])]))

\* the argument list of authenticate: request.rpId,
\* this.urlB64toStdB64(request.challenge), withSecurityKey
prepareAuthenticationArguments(req, withSecurityKey) ==
  LET challenge == Get(req, "challenge")
  IN  IF Nullish(req) \/ ~IsString(challenge)
        THEN Throw(TypeError)
        ELSE Ok(<<Get(req, "rpId"), Str(urlB64toStdB64(challenge.v)),
                  Bool(withSecurityKey)>>)

(***************************************************************************)
(* JSON.stringify / JSON.parse.  A JSON text is a tree tagged by its field *)
(* j; the text of an object holds the members whose value is defined.      *)
(***************************************************************************)
JStr(s) == [j |-> "string", v |-> s]
JObj(m) == [j |-> "object", m |-> m]
JInvalid == [j |-> "invalid"]

RECURSIVE JSONstringify(_)
JSONstringify(v) ==
  CASE v.t = "string" -> JStr(v.v)
    [] v.t = "boolean" -> [j |-> "boolean", v |-> v.v]
    [] v.t = "object" ->
         JObj([k \in {x \in DOMAIN v.f : v.f[x].t # "undefined"} |->
                 JSONstringify(v.f[k])])
    [] OTHER -> [j |-> "null"]

RECURSIVE JSONvalue(_)
JSONvalue(text) ==
  CASE text.j = "string" -> Str(text.v)
    [] text.j = "boolean" -> Bool(text.v)
    [] text.j = "object" -> Obj([k \in DOMAIN text.m |-> JSONvalue(text.m[k])])
    [] OTHER -> Null

JSONparse(text) ==
  IF text.j = "invalid" THEN Throw(SyntaxError) ELSE Ok(JSONvalue(text))

(***************************************************************************)
(* PasskeyAndroid                                                          *)
(***************************************************************************)
\* faulty variant: the padding of the challenge is kept
prepareRequest_KeepPadding(req) ==
  LET challenge == Get(req, "challenge")
  IN  IF Nullish(req) \/ ~IsString(challenge)
        THEN Throw(TypeError)
        ELSE LET encodedChallenge ==
                   ReplaceAll(ReplaceAll(challenge.v, "+", "-"), "/", "_")
             IN  Ok(Obj([k \in DOMAIN req.f \cup {"challenge"} |->
                           IF k = "challenge" THEN Str(encodedChallenge)
                                              ELSE req.f[k]]))

\* { ...request, challenge: encodedChallenge }
prepareRequest(req) ==
  LET challenge == Get(req, "challenge")
  IN  IF Nullish(req) \/ ~IsString(challenge)
        THEN Throw(TypeError)
        ELSE LET encodedChallenge ==
                   StripTrailing(
                     ReplaceAll(ReplaceAll(challenge.v, "+", "-"), "/", "_"), "=")
             IN  Ok(Obj([k \in DOMAIN req.f \cup {"challenge"} |->
                           IF k = "challenge" THEN Str(encodedChallenge)
                                              ELSE req.f[k]]))

\* faulty variant: rawId is what the native layer sent
handleNativeResponse_KeepRawId(response) ==
  IF Nullish(response)
    THEN Throw(TypeError)
    ELSE Ok(Obj([k \in DOMAIN response.f \cup {"id", "rawId"} |->
                   IF k = "id" THEN Get(response, "id") ELSE Get(response, k)]))

\* { ...response, id: response.id, rawId: response.id }
handleNativeResponse(response) ==
  IF Nullish(response)
    THEN Throw(TypeError)
    ELSE Ok(Obj([k \in DOMAIN response.f \cup {"id", "rawId"} |->
                   IF k \in {"id", "rawId"} THEN Get(response, "id")
                                            ELSE response.f[k]]))

(***************************************************************************)
(* Inputs: the requests callers pass and the ways the native capability    *)
(* settles                                                                 *)
(***************************************************************************)
ChallengeUrl == <<"a", "b", "c", "-", "_">>
ChallengeStd == <<"a", "+", "b", "/", "c", "=">>
CredentialPadded == <<"Z", "G", "V", "m", "Z", "w", "=", "=">>
CredentialPlain == <<"Z", "G", "V", "m", "Z", "w">>
StdWithSymbols == <<"a", "+", "b", "/">>
DataPadded == <<"Y", "Q", "=", "=">>
DataPlain == <<"Y", "Q">>
RpIdText == <<"r", "p">>
UserIdText == <<"u">>
UserNameText == <<"n">>

RequestUrlChallenge ==
  Obj([challenge |-> Str(ChallengeUrl),
       rp |-> Obj([id |-> Str(RpIdText)]),
       user |-> Obj([id |-> Str(UserIdText), displayName |-> Str(UserNameText)]),
       rpId |-> Str(RpIdText)])

RequestStdChallenge ==
  Obj([challenge |-> Str(ChallengeStd),
       rp |-> Obj([id |-> Str(RpIdText)]),
       user |-> Obj([id |-> Str(UserIdText), displayName |-> Str(UserNameText)]),
       rpId |-> Str(RpIdText),
       extensions |-> Undefined])

RequestNoChallenge == Obj([rpId |-> Str(RpIdText)])

Requests == {RequestUrlChallenge, RequestStdChallenge, RequestNoChallenge}

Resolve(v) == [kind |-> "resolve", value |-> v]
Reject(e) == [kind |-> "reject", value |-> e]
Pending == [kind |-> "pending"]

NativeErrors == {[t |-> "NativeError", code |-> "UserCancelled"], Str(<<"x">>)}

IOSRegistrationResult(credentialID) ==
  Obj([credentialID |-> Str(credentialID),
       response |-> Obj([rawClientDataJSON |-> Str(DataPadded),
                         rawAttestationObject |-> Str(StdWithSymbols)])])

IOSAuthenticationResult(credentialID) ==
  Obj([credentialID |-> Str(credentialID),
       userID |-> Str(DataPadded),
       response |-> Obj([rawAuthenticatorData |-> Str(StdWithSymbols),
                         rawClientDataJSON |-> Str(DataPadded),
                         signature |-> Str(StdWithSymbols)])])

IOSRegisterResponses ==
  {Resolve(IOSRegistrationResult(x)) : x \in {CredentialPadded, StdWithSymbols}}
    \cup {Resolve(Obj([credentialID |-> Str(CredentialPadded)]))}
    \cup {Reject(e) : e \in NativeErrors}

IOSAuthenticateResponses ==
  {Resolve(IOSAuthenticationResult(x)) : x \in {CredentialPadded, StdWithSymbols}}
    \cup {Resolve(Obj([credentialID |-> Str(CredentialPadded)]))}
    \cup {Reject(e) : e \in NativeErrors}

AndroidResultTexts ==
  { JObj([id |-> JStr(StdWithSymbols), rawId |-> JStr(DataPadded),
          type |-> JStr(PublicKey),
          response |-> JObj([clientDataJSON |-> JStr(DataPadded)])]),
    JObj([id |-> JStr(CredentialPlain)]),
    JObj([id |-> JStr(CredentialPlain), rawId |-> JStr(CredentialPlain),
          type |-> JStr(PublicKey),
          response |-> JObj([clientDataJSON |-> JStr(DataPlain)])]),
    JInvalid }

AndroidResponses ==
  {Resolve(x) : x \in AndroidResultTexts} \cup {Reject(e) : e \in NativeErrors}

(***************************************************************************)
(* One call: the synchronous part up to the await, then the continuation   *)
(***************************************************************************)
\* the native capability is invoked and the call suspends on its promise
Invoke(c, m, args) ==
  /\ pc' = [pc EXCEPT ![c] = "awaiting"]
  /\ method' = [method EXCEPT ![c] = m]
  /\ nativeArgs' = [nativeArgs EXCEPT ![c] = args]
  /\ nativeInvocations' = [nativeInvocations EXCEPT ![c] = @ + 1]
  /\ UNCHANGED <<request, nativeResponse, outcome, classifications>>
  /\ UNCHANGED codecVars

\* an exception thrown outside the try block rejects the call as it is
RejectUncaught(c, m, e) ==
  /\ pc' = [pc EXCEPT ![c] = "rejected"]
  /\ method' = [method EXCEPT ![c] = m]
  /\ outcome' = [outcome EXCEPT ![c] = e]
  /\ UNCHANGED <<request, nativeArgs, nativeResponse, nativeInvocations,
                 classifications>>
  /\ UNCHANGED codecVars

\* catch (error) { throw handleNativeError(error) }
RejectCaught(c, m, e) ==
  /\ pc' = [pc EXCEPT ![c] = "rejected"]
  /\ method' = [method EXCEPT ![c] = m]
  /\ outcome' = [outcome EXCEPT ![c] = handleNativeError(e)]
  /\ classifications' = [classifications EXCEPT ![c] = @ + 1]
  /\ UNCHANGED <<request, nativeArgs, nativeInvocations>>
  /\ UNCHANGED codecVars

\* return <result>
ResolveWith(c, v) ==
  /\ pc' = [pc EXCEPT ![c] = "resolved"]
  /\ outcome' = [outcome EXCEPT ![c] = v]
  /\ UNCHANGED <<method, request, nativeArgs, nativeInvocations, classifications>>
  /\ UNCHANGED codecVars

\* the continuation after the await: the try block's completion decides
Settle(c, resp, completion) ==
  /\ nativeResponse' = [nativeResponse EXCEPT ![c] = resp]
  /\ IF completion.ok
       THEN ResolveWith(c, completion.val)
       ELSE RejectCaught(c, method[c], completion.val)

IOSRegister(c) ==
  /\ pc[c] = "idle"
  /\ \E withSecurityKey \in BOOLEAN :
       LET prepared == prepareRegistrationRequest(request[c])
       IN  IF prepared.ok
             THEN /\ Invoke(c, "PasskeyiOS.register",
                            <<prepared.val.rpId, prepared.val.challenge,
                              prepared.val.name, prepared.val.userID,
                              Bool(withSecurityKey)>>)
             ELSE /\ RejectUncaught(c, "PasskeyiOS.register", prepared.val)

IOSRegisterSettled(c) ==
  /\ pc[c] = "awaiting"
  /\ method[c] = "PasskeyiOS.register"
  /\ \E resp \in IOSRegisterResponses :
       Settle(c, resp,
              IF resp.kind = "reject" THEN Throw(resp.value)
              ELSE handleNativeRegistrationResult(resp.value))

IOSAuthenticate(c) ==
  /\ pc[c] = "idle"
  /\ \E withSecurityKey \in BOOLEAN :
       LET args == prepareAuthenticationArguments(request[c], withSecurityKey)
       IN  IF args.ok
             THEN /\ Invoke(c, "PasskeyiOS.authenticate", args.val)
             ELSE /\ RejectCaught(c, "PasskeyiOS.authenticate", args.val)
                  /\ UNCHANGED nativeResponse

\* faulty variant: a failed native invocation is tried again
IOSAuthenticateSettled_Retry(c) ==
  /\ pc[c] = "awaiting"
  /\ method[c] = "PasskeyiOS.authenticate"
  /\ \E resp \in IOSAuthenticateResponses :
       IF resp.kind = "reject"
         THEN /\ nativeResponse' = [nativeResponse EXCEPT ![c] = resp]
              /\ nativeInvocations' = [nativeInvocations EXCEPT ![c] = @ + 1]
              /\ UNCHANGED <<pc, method, request, nativeArgs, outcome,
                             classifications>>
              /\ UNCHANGED codecVars
         ELSE Settle(c, resp, handleNativeAuthenticationResult(resp.value))

IOSAuthenticateSettled(c) ==
  /\ pc[c] = "awaiting"
  /\ method[c] = "PasskeyiOS.authenticate"
  /\ \E resp \in IOSAuthenticateResponses :
       Settle(c, resp,
              IF resp.kind = "reject" THEN Throw(resp.value)
              ELSE handleNativeAuthenticationResult(resp.value))

\* the try block of PasskeyAndroid.register / authenticate after the await
AndroidTry(resp) ==
  IF resp.kind = "reject"
    THEN Throw(resp.value)
    ELSE LET parsed == JSONparse(resp.value)
         IN  IF parsed.ok THEN handleNativeResponse(parsed.val) ELSE parsed

\* faulty variant: the prepared request is kept in a field shared by the calls
AndroidRegister_SharedRequest(c) ==
  /\ pc[c] = "idle"
  /\ LET others == {d \in Calls : d # c /\ pc[d] = "awaiting"}
         source == IF others = {} THEN c ELSE CHOOSE d \in others : TRUE
         nativeRequest == prepareRequest(request[source])
     IN  IF nativeRequest.ok
           THEN /\ Invoke(c, "PasskeyAndroid.register",
                          <<JSONstringify(nativeRequest.val)>>)
           ELSE /\ RejectUncaught(c, "PasskeyAndroid.register", nativeRequest.val)

AndroidRegister(c) ==
  /\ pc[c] = "idle"
  /\ LET nativeRequest == prepareRequest(request[c])
     IN  IF nativeRequest.ok
           THEN /\ Invoke(c, "PasskeyAndroid.register",
                          <<JSONstringify(nativeRequest.val)>>)
           ELSE /\ RejectUncaught(c, "PasskeyAndroid.register", nativeRequest.val)

AndroidRegisterSettled(c) ==
  /\ pc[c] = "awaiting"
  /\ method[c] = "PasskeyAndroid.register"
  /\ \E resp \in AndroidResponses : Settle(c, resp, AndroidTry(resp))

AndroidAuthenticate(c) ==
  /\ pc[c] = "idle"
  /\ LET nativeRequest == prepareRequest(request[c])
     IN  IF nativeRequest.ok
           THEN /\ Invoke(c, "PasskeyAndroid.authenticate",
                          <<JSONstringify(nativeRequest.val)>>)
           ELSE /\ RejectUncaught(c, "PasskeyAndroid.authenticate",
                                  nativeRequest.val)

AndroidAuthenticateSettled(c) ==
  /\ pc[c] = "awaiting"
  /\ method[c] = "PasskeyAndroid.authenticate"
  /\ \E resp \in AndroidResponses : Settle(c, resp, AndroidTry(resp))

(***************************************************************************)
(* Specifications                                                          *)
(***************************************************************************)
CallsInit ==
  /\ pc = [c \in Calls |-> "idle"]
  /\ method = [c \in Calls |-> "none"]
  /\ request \in [Calls -> Requests]
  /\ nativeArgs = [c \in Calls |-> <<>>]
  /\ nativeResponse = [c \in Calls |-> Pending]
  /\ outcome = [c \in Calls |-> Undefined]
  /\ nativeInvocations = [c \in Calls |-> 0]
  /\ classifications = [c \in Calls |-> 0]

Init ==
  /\ CallsInit
  /\ codecPc = "input"
  /\ codecInput = <<>>
  /\ codecStd = <<>>
  /\ codecUrl = <<>>

Next ==
  \E c \in Calls :
    \/ IOSRegister(c)
    \/ IOSRegisterSettled(c)
    \/ IOSAuthenticate(c)
    \/ IOSAuthenticateSettled(c)
    \/ AndroidRegister(c)
    \/ AndroidRegisterSettled(c)
    \/ AndroidAuthenticate(c)
    \/ AndroidAuthenticateSettled(c)

Spec == Init /\ [][Next]_vars

CodecInit ==
  /\ pc = [c \in Calls |-> "idle"]
  /\ method = [c \in Calls |-> "none"]
  /\ request = [c \in Calls |-> RequestUrlChallenge]
  /\ nativeArgs = [c \in Calls |-> <<>>]
  /\ nativeResponse = [c \in Calls |-> Pending]
  /\ outcome = [c \in Calls |-> Undefined]
  /\ nativeInvocations = [c \in Calls |-> 0]
  /\ classifications = [c \in Calls |-> 0]
  /\ codecPc = "input"
  /\ codecInput \in UrlSafeStrings
  /\ codecStd = <<>>
  /\ codecUrl = <<>>

CodecNext == CodecToStandard \/ CodecToUrlSafe

CodecSpec == CodecInit /\ [][CodecNext]_vars

(***************************************************************************)
(* Properties                                                              *)
(***************************************************************************)
IOSMethods == {"PasskeyiOS.register", "PasskeyiOS.authenticate"}
AndroidMethods == {"PasskeyAndroid.register", "PasskeyAndroid.authenticate"}

\* a string without '+', '/' and '='
UrlSafeUnpadded(v) ==
  IsString(v) => \A i \in 1..Len(v.v) : v.v[i] \notin {"+", "/", "="}

\* C1: a call that rejects, rejects with a value of the error classifier: a
\* PasskeyError of one of the enumerated kinds, never a raw exception.
C1_RejectionsAreClassified ==
  \A c \in Calls :
    pc[c] = "rejected" =>
      /\ outcome[c].t = "PasskeyError"
      /\ outcome[c].error \in ErrorKinds

\* C2: every byte-string field of a result a call resolved with is url-safe
\* base64 without padding (no '+', no '/', no '='), on both adapters.
C2_ResultsAreUrlSafe ==
  \A c \in Calls :
    pc[c] = "resolved" =>
      /\ \A k \in {"id", "rawId"} : UrlSafeUnpadded(Get(outcome[c], k))
      /\ \A k \in {"clientDataJSON", "attestationObject", "authenticatorData",
                   "signature", "userHandle"} :
           UrlSafeUnpadded(Get(Get(outcome[c], "response"), k))

\* C3: every result a call resolved with has type "public-key", on both
\* adapters, whatever the native layer returned.
C3_TypeIsPublicKey ==
  \A c \in Calls :
    pc[c] = "resolved" => Get(outcome[c], "type") = Str(PublicKey)

\* C4: for every unpadded url-safe string x, stdB64toUrlB64(urlB64toStdB64(x))
\* is x.
C4_RoundTrip ==
  codecPc = "urlsafe" => codecUrl = codecInput

C4_Witness ==
  /\ codecPc = "urlsafe"
  /\ codecInput = <<"A", "-", "_">>
  /\ codecStd = <<"A", "+", "/", "=">>
  /\ codecUrl = <<"A", "-", "_">>

\* C5 as stated: PasskeyiOS.register with challenge "abc-_" invokes the native
\* register capability with challenge "abc+/=".
C5_NativeChallengeAsClaimed ==
  \A c \in Calls :
    (/\ method[c] = "PasskeyiOS.register"
     /\ nativeInvocations[c] = 1
     /\ Get(request[c], "challenge") = Str(ChallengeUrl))
      => nativeArgs[c][2] = Str(<<"a", "b", "c", "+", "/", "=">>)

\* C5 amended: PasskeyiOS.register with challenge "abc-_" invokes the native
\* register capability with challenge "abc+/===": '-' and '_' replaced, then
\* padded with '=' to length 8, the next multiple of 4.
C5_NativeChallengePadded ==
  \A c \in Calls :
    (/\ method[c] = "PasskeyiOS.register"
     /\ nativeInvocations[c] = 1
     /\ Get(request[c], "challenge") = Str(ChallengeUrl))
      => /\ nativeArgs[c][2] = Str(<<"a", "b", "c", "+", "/", "=", "=", "=">>)
         /\ Len(nativeArgs[c][2].v) % 4 = 0

C5_Witness ==
  \E c \in Calls :
    /\ method[c] = "PasskeyiOS.register"
    /\ pc[c] = "awaiting"
    /\ nativeInvocations[c] = 1
    /\ Get(request[c], "challenge") = Str(ChallengeUrl)
    /\ Len(nativeArgs[c]) = 5

\* C6: a result of PasskeyiOS.register / authenticate has id equal to rawId,
\* both the native credentialID re-encoded to url-safe base64 with the trailing
\* padding removed; credentialID "ZGVmZw==" gives "ZGVmZw".
C6_IdIsRawIdIsCredential ==
  \A c \in Calls :
    (method[c] \in IOSMethods /\ pc[c] = "resolved") =>
      LET credentialID == Get(nativeResponse[c].value, "credentialID")
          id == Get(outcome[c], "id")
      IN  /\ id = Get(outcome[c], "rawId")
          /\ id = Str(stdB64toUrlB64(credentialID.v))
          /\ UrlSafeUnpadded(id)
          /\ credentialID = Str(CredentialPadded) => id = Str(CredentialPlain)

C6_Witness ==
  \E c \in Calls :
    /\ method[c] = "PasskeyiOS.register"
    /\ pc[c] = "resolved"
    /\ Get(nativeResponse[c].value, "credentialID") = Str(CredentialPadded)
    /\ Get(outcome[c], "rawId") = Str(CredentialPlain)

\* the payload handed to the Android native capability, against the request
C7_PayloadInvariant ==
  \A c \in Calls :
    (method[c] \in AndroidMethods /\ nativeInvocations[c] = 1) =>
      LET payload == JSONvalue(nativeArgs[c][1])
          challenge == Get(request[c], "challenge")
      IN  /\ Get(payload, "challenge") = Str(stdB64toUrlB64(challenge.v))
          /\ UrlSafeUnpadded(Get(payload, "challenge"))
          /\ challenge = Str(ChallengeStd) =>
               Get(payload, "challenge") = Str(<<"a", "-", "b", "_", "c">>)
          /\ DOMAIN payload.f \subseteq DOMAIN request[c].f
          /\ \A k \in DOMAIN request[c].f \ {"challenge"} :
               Get(payload, k) = request[c].f[k]

\* C7: the payload PasskeyAndroid serializes to the native capability carries
\* the request's challenge rewritten to url-safe base64 without padding
\* ("a+b/c=" becomes "a-b_c") and every other field as the request has it,
\* and no step changes the caller's request object.
C7_PayloadAndRequest ==
  /\ []C7_PayloadInvariant
  /\ [][request' = request]_vars

C7_Witness ==
  \E c \in Calls :
    /\ method[c] = "PasskeyAndroid.register"
    /\ pc[c] = "awaiting"
    /\ Get(request[c], "challenge") = Str(ChallengeStd)
    /\ Get(JSONvalue(nativeArgs[c][1]), "challenge") = Str(<<"a", "-", "b", "_", "c">>)
    /\ Get(JSONvalue(nativeArgs[c][1]), "rpId") = Str(RpIdText)

\* C8: a result of PasskeyAndroid.register / authenticate has rawId equal to
\* id, also when the native object omits rawId or carries another one, and
\* every other field of the native object is in the result unchanged.
C8_RawIdIsId ==
  \A c \in Calls :
    (method[c] \in AndroidMethods /\ pc[c] = "resolved") =>
      LET native == JSONvalue(nativeResponse[c].value)
      IN  /\ Get(outcome[c], "rawId") = Get(outcome[c], "id")
          /\ \A k \in DOMAIN native.f \ {"rawId"} :
               Get(outcome[c], k) = native.f[k]

C8_Witness ==
  \E c \in Calls :
    /\ method[c] = "PasskeyAndroid.authenticate"
    /\ pc[c] = "resolved"
    /\ Get(JSONvalue(nativeResponse[c].value), "rawId") = Str(DataPadded)
    /\ Get(outcome[c], "rawId") = Str(StdWithSymbols)
    /\ Get(outcome[c], "type") = Str(PublicKey)

\* the counts of native invocations and of classifications of one call
C9_OneInvocationInvariant ==
  \A c \in Calls :
    /\ nativeInvocations[c] <= 1
    /\ classifications[c] <= 1
    /\ pc[c] = "resolved" => classifications[c] = 0
    /\ nativeResponse[c].kind = "reject" =>
         /\ pc[c] = "rejected"
         /\ nativeInvocations[c] = 1
         /\ classifications[c] = 1
         /\ outcome[c] = handleNativeError(nativeResponse[c].value)

\* C9: a call invokes the native capability at most once; when the invocation
\* fails the call rejects with handleNativeError of the failure, applied once,
\* without a second invocation; a settled call stays as it settled.
C9_NoRetryNoPartialResult ==
  /\ []C9_OneInvocationInvariant
  /\ [][\A c \in Calls :
          pc[c] \in {"resolved", "rejected"} =>
            /\ pc'[c] = pc[c]
            /\ outcome'[c] = outcome[c]
            /\ nativeInvocations'[c] = nativeInvocations[c]]_vars

C9_Witness ==
  \E c \in Calls :
    /\ method[c] = "PasskeyiOS.authenticate"
    /\ nativeResponse[c].kind = "reject"
    /\ pc[c] = "rejected"
    /\ nativeInvocations[c] = 1
    /\ classifications[c] = 1

\* what a call hands to the native capability, from its own request
OwnArguments(c) ==
  CASE method[c] = "PasskeyiOS.register" ->
         LET prepared == prepareRegistrationRequest(request[c]).val
         IN  <<prepared.rpId, prepared.challenge, prepared.name, prepared.userID,
               nativeArgs[c][5]>>
    [] method[c] = "PasskeyiOS.authenticate" ->
         prepareAuthenticationArguments(request[c], nativeArgs[c][3].v).val
    [] OTHER -> <<JSONstringify(prepareRequest(request[c]).val)>>

\* what a call settles with, from the native response to its own invocation
OwnCompletion(c) ==
  LET resp == nativeResponse[c]
  IN  IF resp.kind = "reject" THEN Throw(resp.value)
      ELSE CASE method[c] = "PasskeyiOS.register" ->
                  handleNativeRegistrationResult(resp.value)
             [] method[c] = "PasskeyiOS.authenticate" ->
                  handleNativeAuthenticationResult(resp.value)
             [] OTHER -> AndroidTry(resp)

\* C10: with calls overlapping in any order, the arguments a call passes to
\* the native capability are a function of its own request, its outcome is a
\* function of its own request and the response to its own invocation, and
\* two calls with the same inputs end the same way.
C10_CallsAreIndependent ==
  /\ \A c \in Calls :
       /\ nativeInvocations[c] = 1 => nativeArgs[c] = OwnArguments(c)
       /\ nativeResponse[c].kind # "pending" =>
            LET completion == OwnCompletion(c)
            IN  IF completion.ok
                  THEN pc[c] = "resolved" /\ outcome[c] = completion.val
                  ELSE /\ pc[c] = "rejected"
                       /\ outcome[c] = handleNativeError(completion.val)
  /\ \A c, d \in Calls :
       (/\ c < d
        /\ method[c] = method[d]
        /\ nativeInvocations[c] = 1
        /\ nativeInvocations[d] = 1
        /\ request[c] = request[d]
        /\ nativeArgs[c][Len(nativeArgs[c])] = nativeArgs[d][Len(nativeArgs[d])])
         => /\ nativeArgs[c] = nativeArgs[d]
            /\ nativeResponse[c] = nativeResponse[d] => outcome[c] = outcome[d]

C10_Witness ==
  /\ pc[1] = "awaiting"
  /\ method[1] = "PasskeyAndroid.register"
  /\ pc[2] = "resolved"
  /\ method[2] = "PasskeyAndroid.register"
  /\ request[1] # request[2]
  /\ nativeArgs[1] # nativeArgs[2]

====
